---- MODULE Spec2Model ----
(***************************************************************************)
(* Model of the WebpageImpact plugin (src/lib/webpage-impact/index.ts):    *)
(* the Metric Aggregator (computeMetrics), the Page Load Recorder with its *)
(* transport-session correlator (loadPageResources) and the batch          *)
(* orchestration (execute / measurePageImpactMetrics).                     *)
(***************************************************************************)
EXTENDS Integers, Sequences, FiniteSets, TLC

VARIABLES
    initialResources,   \* computeMetrics: first argument (Resource[])
    reloadResources,    \* computeMetrics: second argument (Resource[])
    metrics,            \* computeMetrics: the returned object, or NoMetrics
    console,            \* console.warn / console.error lines emitted so far
    pc,                 \* loadPageResources: the await it is suspended at
    options,            \* loadPageResources: {reload, cacheEnabled, scrollToBottom}
    sessionState,       \* the CDP session: "none", "attached" or "detached"
    listenerState,      \* page 'response' listener: "none", "on" or "off"
    cdpIntermediateStore, \* Map requestId -> {url}
    cdpResponses,       \* Map url -> {encodedDataLength}
    cdpLog,             \* the CDP events delivered to the session's listeners, in order
    responses,          \* the responseHandler invocations, in order of delivery
    pageResources,      \* ResourceBase[] accumulated by responseHandler
    returned,           \* what loadPageResources returned or threw
    totalHeight,        \* scrollToBottomOfPage: distance scrolled so far
    scrollHeight,       \* document.body.scrollHeight of the page
    growths,            \* how often the page has grown while being scrolled
    config,             \* execute: mergedValidatedConfig
    inputs,             \* execute: the inputs array
    pipeline,           \* execute: the async mapper of each input
    execution           \* execute: the promise it returned

metricVars == <<initialResources, reloadResources, metrics>>
cdpVars == <<cdpIntermediateStore, cdpResponses, cdpLog>>
recorderVars == <<responses, pageResources>>
scrollVars == <<totalHeight, scrollHeight, growths>>
loadVars == <<pc, options, sessionState, listenerState, cdpIntermediateStore, cdpResponses,
              cdpLog, responses, pageResources, returned, totalHeight, scrollHeight, growths>>
execVars == <<config, inputs, pipeline, execution>>
\* What loadPageResources leaves alone.
outsideLoad == <<initialResources, reloadResources, metrics, config, inputs, pipeline,
                 execution>>
vars == <<initialResources, reloadResources, metrics, console, pc, options, sessionState,
          listenerState, cdpIntermediateStore, cdpResponses, cdpLog, responses,
          pageResources, returned, totalHeight, scrollHeight, growths, config, inputs,
          pipeline, execution>>

(***************************************************************************)
(* Bounds of the model.                                                    *)
(***************************************************************************)
\* Resources recorded over the two navigations of one measurement.
MaxResources == 4
\* Page 'response' events delivered during one navigation.
MaxResponses == 2
\* CDP events delivered to the session during one navigation.
MaxCdpEvents == 4
\* Resources already recorded when the correlator is observed.
MaxRecorded == 2
\* Times the page grows (lazy loading) while it is scrolled.
MaxGrowths == 1
\* Inputs of one execute call.
MaxInputs == 2

(***************************************************************************)
(* Data model.                                                             *)
(***************************************************************************)
\* puppeteer ResourceType values used by the model.
ResourceTypes == {"image", "script"}

\* transferSize / encodedDataLength values (bytes on the wire).
TransferSizes == {0, 50, 100}

\* The fields of a Resource that computeMetrics reads.
MetricResource == [type : ResourceTypes, transferSize : TransferSizes, fromCache : BOOLEAN]

(***************************************************************************)
(* JavaScript numbers: the quotient of two integers.  Division by zero     *)
(* yields NaN, Infinity or -Infinity; every other quotient is kept as the  *)
(* exact fraction num/den with den # 0.                                    *)
(***************************************************************************)
Undefined == [kind |-> "undefined", num |-> 0, den |-> 0]
NaN == [kind |-> "NaN", num |-> 0, den |-> 0]
PosInfinity == [kind |-> "Infinity", num |-> 1, den |-> 0]
NegInfinity == [kind |-> "-Infinity", num |-> -1, den |-> 0]

Divide(num, den) ==
    IF den = 0
    THEN IF num = 0 THEN NaN ELSE IF num > 0 THEN PosInfinity ELSE NegInfinity
    ELSE [kind |-> "finite", num |-> num, den |-> den]

\* value = 1.0, value <= 1 and value < 0 of a JavaScript number.
IsOne(x) == x.kind = "finite" /\ x.num = x.den
AtMostOne(x) ==
    \/ x.kind = "-Infinity"
    \/ x.kind = "finite" /\ (IF x.den > 0 THEN x.num <= x.den ELSE x.num >= x.den)
IsZero(x) == x.kind = "finite" /\ x.num = 0
\* JavaScript truthiness of a number | undefined.
Truthy(x) == x.kind \in {"Infinity", "-Infinity"} \/ (x.kind = "finite" /\ x.num # 0)

(***************************************************************************)
(* computeMetrics (index.ts 340-393).                                      *)
(***************************************************************************)
\* reduce((acc, r) => acc + r.transferSize, 0)
RECURSIVE SumTransferSize(_)
SumTransferSize(resources) ==
    IF resources = <<>> THEN 0
    ELSE Head(resources).transferSize + SumTransferSize(Tail(resources))

\* Variant: the bytes of the resources not from cache are summed.
RECURSIVE SumNotFromCache(_)
SumNotFromCache(resources) ==
    IF resources = <<>> THEN 0
    ELSE (IF Head(resources).fromCache THEN 0 ELSE Head(resources).transferSize)
         + SumNotFromCache(Tail(resources))

\* reduce((acc, r) => acc + (r.fromCache ? r.transferSize : 0), 0)
RECURSIVE SumFromCache(_)
SumFromCache(resources) ==
    IF resources = <<>> THEN 0
    ELSE (IF Head(resources).fromCache THEN Head(resources).transferSize ELSE 0)
         + SumFromCache(Tail(resources))

\* The reducer of resourceTypeWeights: acc is the object built so far.
RECURSIVE TypeWeightsFold(_, _)
TypeWeightsFold(acc, resources) ==
    IF resources = <<>> THEN acc
    ELSE LET r == Head(resources)
             next == IF r.type \in DOMAIN acc
                     THEN [acc EXCEPT ![r.type] = @ + r.transferSize]
                     ELSE [t \in DOMAIN acc \cup {r.type} |->
                              IF t = r.type THEN r.transferSize ELSE acc[t]]
         IN TypeWeightsFold(next, Tail(resources))

EmptyObject == [t \in {} |-> 0]

\* Variant: a repeated type overwrites its weight instead of adding to it.
RECURSIVE TypeWeightsOverwrite(_, _)
TypeWeightsOverwrite(acc, resources) ==
    IF resources = <<>> THEN acc
    ELSE LET r == Head(resources)
         IN TypeWeightsOverwrite([t \in DOMAIN acc \cup {r.type} |->
                                     IF t = r.type THEN r.transferSize ELSE acc[t]],
                                 Tail(resources))

ResourceTypeWeightsOverwriting(resources) == TypeWeightsOverwrite(EmptyObject, resources)

ResourceTypeWeights(resources) == TypeWeightsFold(EmptyObject, resources)

\* Object.values(obj).reduce((acc, v) => acc + v, 0)
RECURSIVE SumValues(_)
SumValues(obj) ==
    IF DOMAIN obj = {} THEN 0
    ELSE LET k == CHOOSE t \in DOMAIN obj : TRUE
         IN obj[k] + SumValues([t \in DOMAIN obj \ {k} |-> obj[t]])

InitialPageWeight(resources) == SumValues(ResourceTypeWeights(resources))

\* Variant: the flagged bytes are subtracted from the inferred ones.
AssumedCacheWeightSubtracting(initial, reload) ==
    (InitialPageWeight(initial) - SumTransferSize(reload)) - SumFromCache(reload)

\* Variant: only the flagged bytes count as cached.
AssumedCacheWeightFlagsOnly(initial, reload) == SumFromCache(reload)

AssumedCacheWeight(initial, reload) ==
    LET reloadPageWeight == SumTransferSize(reload)
        assumeFromCache == InitialPageWeight(initial) - reloadPageWeight
        browserCache == SumFromCache(reload)
    IN assumeFromCache + browserCache

\* Variant: the ratio is taken over the weight of the reload.
DataReloadRatioOverReload(initial, reload) ==
    Divide(InitialPageWeight(initial) - AssumedCacheWeight(initial, reload),
           SumTransferSize(reload))

DataReloadRatio(initial, reload) ==
    Divide(InitialPageWeight(initial) - AssumedCacheWeight(initial, reload),
           InitialPageWeight(initial))

\* Variant: the reload resources are folded into the type weights as well.
computeMetricsFoldingBoth(initial, reload, computeReloadRatio) ==
    [pageWeight |-> InitialPageWeight(initial),
     resourceTypeWeights |-> ResourceTypeWeights(initial \o reload),
     dataReloadRatio |-> IF computeReloadRatio THEN DataReloadRatio(initial, reload)
                         ELSE Undefined,
     computed |-> computeReloadRatio]

computeMetrics(initial, reload, computeReloadRatio) ==
    [pageWeight |-> InitialPageWeight(initial),
     resourceTypeWeights |-> ResourceTypeWeights(initial),
     dataReloadRatio |-> IF computeReloadRatio THEN DataReloadRatio(initial, reload)
                         ELSE Undefined,
     computed |-> computeReloadRatio]

\* The console.warn of line 369.
InitialCacheWarning(initial, computeReloadRatio) ==
    IF computeReloadRatio /\ SumFromCache(initial) > 0
    THEN <<[level |-> "warn", text |-> "Initial page load contained resources from cache.",
            url |-> <<>>]>>
    ELSE <<>>

NoMetrics == [pageWeight |-> -1, resourceTypeWeights |-> EmptyObject,
              dataReloadRatio |-> Undefined, computed |-> FALSE]

(***************************************************************************)
(* URLs, responses and CDP events.  A URL is the sequence of its parts, the *)
(* scheme first and the ":" after it second, so that startsWith is a real   *)
(* prefix test.                                                            *)
(***************************************************************************)
UrlA == <<"https", ":", "//site.test/a.png">>
UrlB == <<"https", ":", "//site.test/b.js">>
UrlData == <<"data", ":", "image/png;base64,AAAA">>
Urls == {UrlA, UrlB, UrlData}
\* The url argument of loadPageResources and of each input.
PageUrl == <<"https", ":", "//site.test/">>

\* <<status, method>> of the responses the page emits.
ResponseShapes == {<<200, "GET">>, <<204, "GET">>, <<304, "GET">>, <<204, "OPTIONS">>}

\* The HTTPResponse the page emits for a request of url with this status and
\* method.  response.url() is the url of its request (puppeteer's
\* HTTPResponse.url() returns request().url()), so one field serves both.
PageResponse(url, status, method) ==
    [url |-> url, status |-> status, method |-> method,
     fromCache |-> (status = 304),
     fromServiceWorker |-> (url = UrlB),
     type |-> IF url = UrlB THEN "script" ELSE "image",
     bodyLength |-> IF status = 200 THEN (IF url = UrlB THEN 60 ELSE 120) ELSE 0]

Responses == {PageResponse(u, sm[1], sm[2]) : u \in Urls, sm \in ResponseShapes}

RequestIds == {"r1", "r2"}
\* The URLs of the requests the session reports.
CdpUrls == {UrlA, UrlB}
EncodedDataLengths == {0, 50}

ResponseReceivedEvent(requestId, url) ==
    [name |-> "Network.responseReceived", requestId |-> requestId, url |-> url,
     encodedDataLength |-> 0]
LoadingFinishedEvent(requestId, encodedDataLength) ==
    [name |-> "Network.loadingFinished", requestId |-> requestId, url |-> <<>>,
     encodedDataLength |-> encodedDataLength]

EmptyMap == [k \in {} |-> 0]
MapSet(map, key, value) ==
    [k \in DOMAIN map \cup {key} |-> IF k = key THEN value ELSE map[k]]

(***************************************************************************)
(* Errors: an Error has a name and a message; a message is the sequence of *)
(* its ": "-separated parts.                                               *)
(***************************************************************************)
ComponentName == "WebpageImpact"

NoError == [name |-> "", message |-> <<>>]

\* new Error(message)
NewError(message) == [name |-> "Error", message |-> message]

\* What puppeteer rejects with.
TimeoutError == [name |-> "TimeoutError",
                 message |-> <<"Navigation timeout of 30000 ms exceeded">>]
ProtocolError(method) == [name |-> "ProtocolError",
                          message |-> <<"Protocol error (" \o method \o ")", "Target closed">>]
LaunchError == NewError(<<"Failed to launch the browser process!">>)

\* `${error}` of an Error: "<name>: <message>".
ErrorToString(error) == <<error.name>> \o error.message

\* errorBuilder({message}) of buildErrorMessage(WebpageImpact.name):
\* "<ComponentName>: <message>".
errorBuilder(message) == <<ComponentName>> \o message

\* The Error thrown by the catch of loadPageResources (lines 279-285).
LoadError(error) ==
    NewError(errorBuilder(<<"Error during measurement of webpage">>
                          \o ErrorToString(error)))

\* The Error thrown by the catch of measurePageImpactMetrics (lines 206-212).
MeasureError(error) ==
    NewError(errorBuilder(<<"Error during measurement of webpage impact metrics">>
                          \o ErrorToString(error)))

(***************************************************************************)
(* The Non-Network Filter (lines 46-53, 289-300).                          *)
(***************************************************************************)
NON_NETWORK_SCHEMES == {"blob", "data", "intent", "file", "filesystem", "chrome-extension"}

\* url.startsWith(prefix)
StartsWith(url, prefix) ==
    /\ Len(url) >= Len(prefix)
    /\ \A i \in 1..Len(prefix) : url[i] = prefix[i]

\* Variant: the prefix tested is "<scheme>://".
isFromNonNetworkRequestSlashes(response) ==
    \E scheme \in NON_NETWORK_SCHEMES : StartsWith(response.url, <<scheme, ":", "//">>)

isFromNonNetworkRequest(response) ==
    \E scheme \in NON_NETWORK_SCHEMES : StartsWith(response.url, <<scheme, ":">>)

hasNoResponseBody(response) ==
    /\ response.status = 204
    /\ response.status = 304
    /\ response.method # "OPTIONS"

(***************************************************************************)
(* responseHandler (lines 222-239).                                        *)
(***************************************************************************)
\* The synchronous part: where the invocation stands after the filter.
ResponseHandlerEntry(response) ==
    IF isFromNonNetworkRequest(response) \/ hasNoResponseBody(response)
    THEN "skipped" ELSE "reading"

\* The ResourceBase pushed once response.buffer() has resolved.
ResourceBaseOf(response) ==
    [url |-> response.url,
     resourceSize |-> response.bodyLength,
     fromCache |-> response.fromCache,
     fromServiceWorker |-> response.fromServiceWorker,
     type |-> response.type]

BodyErrorLine(response) ==
    [level |-> "error", text |-> "WebpageImpact: Error accessing response body",
     url |-> response.url]

(***************************************************************************)
(* The correlator's two CDP listeners (lines 250-259).                     *)
(***************************************************************************)
\* Variant: a requestId keeps the url it was first reported with.
ResponseReceivedHandlerKeepFirst(store, event) ==
    IF event.requestId \in DOMAIN store THEN store
    ELSE MapSet(store, event.requestId, [url |-> event.url])

ResponseReceivedHandler(store, event) ==
    MapSet(store, event.requestId, [url |-> event.url])

\* Variant: an event without a stored response is booked on the page's url.
LoadingFinishedHandlerUnguarded(store, finished, event) ==
    MapSet(finished,
           IF event.requestId \in DOMAIN store THEN store[event.requestId].url ELSE PageUrl,
           [encodedDataLength |-> event.encodedDataLength])

\* Variant: a url keeps the length it was first finished with.
LoadingFinishedHandlerKeepFirst(store, finished, event) ==
    IF event.requestId \in DOMAIN store /\ store[event.requestId].url \notin DOMAIN finished
    THEN MapSet(finished, store[event.requestId].url,
                [encodedDataLength |-> event.encodedDataLength])
    ELSE finished

LoadingFinishedHandler(store, finished, event) ==
    IF event.requestId \in DOMAIN store
    THEN MapSet(finished, store[event.requestId].url,
                [encodedDataLength |-> event.encodedDataLength])
    ELSE finished

(***************************************************************************)
(* mergeCdpResponsesIntoResources (lines 302-321).                         *)
(***************************************************************************)
\* Variant: a resource without a CDP response is left out.
RECURSIVE mergeResolvedOnly(_, _)
mergeResolvedOnly(resources, finished) ==
    IF resources = <<>> THEN <<>>
    ELSE LET resource == Head(resources) IN
         (IF resource.url \in DOMAIN finished
          THEN <<[url |-> resource.url,
                  resourceSize |-> resource.resourceSize,
                  fromCache |-> resource.fromCache,
                  fromServiceWorker |-> resource.fromServiceWorker,
                  type |-> resource.type,
                  transferSize |-> finished[resource.url].encodedDataLength]>>
          ELSE <<>>)
         \o mergeResolvedOnly(Tail(resources), finished)

mergeCdpResponsesIntoResources(resources, finished) ==
    [i \in 1..Len(resources) |->
        LET resource == resources[i] IN
        [url |-> resource.url,
         resourceSize |-> resource.resourceSize,
         fromCache |-> resource.fromCache,
         fromServiceWorker |-> resource.fromServiceWorker,
         type |-> resource.type,
         transferSize |-> IF resource.url \in DOMAIN finished
                          THEN finished[resource.url].encodedDataLength
                          ELSE 0]]

\* The console.warn lines of the merge, one per resource without a CDP response.
RECURSIVE MergeWarnings(_, _)
MergeWarnings(resources, finished) ==
    IF resources = <<>> THEN <<>>
    ELSE (IF Head(resources).url \in DOMAIN finished THEN <<>>
          ELSE <<[level |-> "warn", text |-> "No encoded data length for resource: ",
                  url |-> Head(resources).url]>>)
         \o MergeWarnings(Tail(resources), finished)

(***************************************************************************)
(* scrollToBottomOfPage (lines 323-338).                                   *)
(***************************************************************************)
distance == 100
\* Heights of the page when the scroll starts (a page that is not scrolled has
\* its height never read: 0), and what lazy loading adds.
PageHeights == {50, 250}
GrowthStep == 150

(***************************************************************************)
(* loadPageResources (lines 215-286) as a state machine.                   *)
(***************************************************************************)
NotReturned == [kind |-> "none", value |-> <<>>, error |-> NoError]

\* The awaits during which the browser delivers events to the listeners.
PageEventPhases == {"navigating", "scrolling", "scrolled"}
CdpEventPhases == {"navigating", "scrolling", "scrolled", "detaching"}

\* The catch of lines 279-285: nothing is deregistered or detached.
Throw(cause) ==
    /\ pc' = "thrown"
    /\ returned' = [kind |-> "error", value |-> <<>>, error |-> LoadError(cause)]
    /\ UNCHANGED <<options, sessionState, listenerState, cdpVars, recorderVars,
                   scrollVars, console, outsideLoad>>

\* Lines 242-248: setCacheEnabled and createCDPSession succeed.
CreateCDPSession ==
    /\ pc = "start"
    /\ pc' = "session"
    /\ sessionState' = "attached"
    /\ cdpIntermediateStore' = EmptyMap
    /\ cdpResponses' = EmptyMap
    /\ UNCHANGED <<options, listenerState, cdpLog, recorderVars, returned, scrollVars,
                   console, outsideLoad>>

\* Lines 242-248: setCacheEnabled or createCDPSession rejects.
CreateCDPSessionThrows ==
    /\ pc = "start"
    /\ Throw(ProtocolError("Target.attachToTarget"))

\* Lines 249-261: Network.enable, the two CDP listeners and page.on('response').
RegisterListeners ==
    /\ pc = "session"
    /\ pc' = "navigating"
    /\ listenerState' = "on"
    /\ UNCHANGED <<options, sessionState, cdpVars, recorderVars, returned, scrollVars,
                   console, outsideLoad>>

\* Line 249: Network.enable rejects.
NetworkEnableThrows ==
    /\ pc = "session"
    /\ Throw(ProtocolError("Network.enable"))

\* Lines 263-275: goto / reload resolves; without scrollToBottom the code goes
\* on to page.off and starts cdpSession.detach().
NavigationSettles ==
    /\ pc = "navigating"
    /\ IF options.scrollToBottom = TRUE
       THEN /\ pc' = "scrolling"
            /\ totalHeight' = 0
            /\ UNCHANGED listenerState
       ELSE /\ pc' = "detaching"
            /\ listenerState' = "off"
            /\ UNCHANGED totalHeight
    /\ UNCHANGED <<options, sessionState, cdpVars, recorderVars, returned, scrollHeight,
                   growths, console, outsideLoad>>

\* Lines 263-267: goto / reload rejects (navigation timeout, net error).
NavigationThrows ==
    /\ pc = "navigating"
    /\ Throw(TimeoutError)

\* Variant: the scroll ends only once it has gone past the height.
ScrollTickPast ==
    /\ pc = "scrolling"
    /\ totalHeight' = totalHeight + distance
    /\ pc' = IF totalHeight' > scrollHeight THEN "scrolled" ELSE "scrolling"
    /\ UNCHANGED <<options, sessionState, listenerState, cdpVars, recorderVars, returned,
                   scrollHeight, growths, console, outsideLoad>>

\* Lines 327-336: one tick of the interval timer.
ScrollTick ==
    /\ pc = "scrolling"
    /\ totalHeight' = totalHeight + distance
    /\ pc' = IF totalHeight' >= scrollHeight THEN "scrolled" ELSE "scrolling"
    /\ UNCHANGED <<options, sessionState, listenerState, cdpVars, recorderVars, returned,
                   scrollHeight, growths, console, outsideLoad>>

\* The page grows under the scroll (lazy loading).
PageGrows ==
    /\ pc = "scrolling"
    /\ growths < MaxGrowths
    /\ scrollHeight' = scrollHeight + GrowthStep
    /\ growths' = growths + 1
    /\ UNCHANGED <<pc, options, sessionState, listenerState, cdpVars, recorderVars,
                   returned, totalHeight, console, outsideLoad>>

\* Lines 271-276: page.evaluate resolves; page.off, cdpSession.detach() starts.
EvaluateReturns ==
    /\ pc = "scrolled"
    /\ pc' = "detaching"
    /\ listenerState' = "off"
    /\ UNCHANGED <<options, sessionState, cdpVars, recorderVars, returned, scrollVars,
                   console, outsideLoad>>

\* Line 271: page.evaluate rejects (execution context destroyed).
EvaluateThrows ==
    /\ pc \in {"scrolling", "scrolled"}
    /\ Throw(NewError(<<"Execution context was destroyed.">>))

\* Lines 276-278: detach resolves, the merge runs, the list is returned.
DetachAndMerge ==
    /\ pc = "detaching"
    /\ pc' = "returned"
    /\ sessionState' = "detached"
    /\ returned' = [kind |-> "resources",
                    value |-> mergeCdpResponsesIntoResources(pageResources, cdpResponses),
                    error |-> NoError]
    /\ console' = console \o MergeWarnings(pageResources, cdpResponses)
    /\ UNCHANGED <<options, listenerState, cdpVars, recorderVars, scrollVars, outsideLoad>>

\* Line 276: cdpSession.detach() rejects.
DetachThrows ==
    /\ pc = "detaching"
    /\ Throw(ProtocolError("Target.detachFromTarget"))

\* The page emits 'response': responseHandler runs up to its await.
ResponseEvent(response) ==
    /\ listenerState = "on"
    /\ pc \in PageEventPhases
    /\ Len(responses) < MaxResponses
    /\ responses' = Append(responses, [response |-> response,
                                       state |-> ResponseHandlerEntry(response)])
    /\ UNCHANGED <<pc, options, sessionState, listenerState, cdpVars, pageResources,
                   returned, scrollVars, console, outsideLoad>>

\* response.buffer() of invocation i resolves: lines 228-235.
BodyReadResolves(i) ==
    /\ responses[i].state = "reading"
    /\ responses' = [responses EXCEPT ![i].state = "pushed"]
    /\ pageResources' = Append(pageResources, ResourceBaseOf(responses[i].response))
    /\ UNCHANGED <<pc, options, sessionState, listenerState, cdpVars, returned,
                   scrollVars, console, outsideLoad>>

\* Variant: the rejection leaves the handler and ends the navigation.
BodyReadRejectsAborting(i) ==
    /\ responses[i].state = "reading"
    /\ responses' = [responses EXCEPT ![i].state = "failed"]
    /\ pc' = "thrown"
    /\ returned' = [kind |-> "error", value |-> <<>>,
                    error |-> LoadError(NewError(<<"Could not load body for this request.">>))]
    /\ UNCHANGED <<options, sessionState, listenerState, cdpVars, pageResources,
                   scrollVars, console, outsideLoad>>

\* response.buffer() of invocation i rejects: the catch of lines 236-238.
BodyReadRejects(i) ==
    /\ responses[i].state = "reading"
    /\ responses' = [responses EXCEPT ![i].state = "failed"]
    /\ console' = Append(console, BodyErrorLine(responses[i].response))
    /\ UNCHANGED <<pc, options, sessionState, listenerState, cdpVars, pageResources,
                   returned, scrollVars, outsideLoad>>

\* The session emits Network.responseReceived.
ResponseReceived(requestId, url) ==
    /\ sessionState = "attached"
    /\ pc \in CdpEventPhases
    /\ Len(cdpLog) < MaxCdpEvents
    /\ cdpIntermediateStore' =
          ResponseReceivedHandler(cdpIntermediateStore, ResponseReceivedEvent(requestId, url))
    /\ cdpLog' = Append(cdpLog, ResponseReceivedEvent(requestId, url))
    /\ UNCHANGED <<pc, options, sessionState, listenerState, cdpResponses, recorderVars,
                   returned, scrollVars, console, outsideLoad>>

\* The session emits Network.loadingFinished.
LoadingFinished(requestId, encodedDataLength) ==
    /\ sessionState = "attached"
    /\ pc \in CdpEventPhases
    /\ Len(cdpLog) < MaxCdpEvents
    /\ cdpResponses' =
          LoadingFinishedHandler(cdpIntermediateStore, cdpResponses,
                                 LoadingFinishedEvent(requestId, encodedDataLength))
    /\ cdpLog' = Append(cdpLog, LoadingFinishedEvent(requestId, encodedDataLength))
    /\ UNCHANGED <<pc, options, sessionState, listenerState, cdpIntermediateStore,
                   recorderVars, returned, scrollVars, console, outsideLoad>>

(***************************************************************************)
(* The states in which a part of the program is not running.               *)
(***************************************************************************)
MetricsIdle ==
    /\ initialResources = <<>>
    /\ reloadResources = <<>>
    /\ metrics = NoMetrics

LoadIdle ==
    /\ pc = "idle"
    /\ options = [reload |-> FALSE, cacheEnabled |-> FALSE, scrollToBottom |-> FALSE]
    /\ sessionState = "none"
    /\ listenerState = "none"
    /\ cdpIntermediateStore = EmptyMap
    /\ cdpResponses = EmptyMap
    /\ cdpLog = <<>>
    /\ responses = <<>>
    /\ pageResources = <<>>
    /\ returned = NotReturned
    /\ totalHeight = 0
    /\ scrollHeight = 0
    /\ growths = 0

NotStarted == [state |-> "none", outputs |-> <<>>, error |-> NoError]

ExecIdle ==
    /\ config = [options |-> [dataReloadRatio |-> Undefined]]
    /\ inputs = <<>>
    /\ pipeline = <<>>
    /\ execution = NotStarted

(***************************************************************************)
(* Specification of the Metric Aggregator: computeMetrics applied to every *)
(* pair of resource lists within the bounds.                               *)
(***************************************************************************)
InitMetrics ==
    /\ \E i \in 0..MaxResources : \E j \in 0..(MaxResources - i) :
          /\ initialResources \in [1..i -> MetricResource]
          /\ reloadResources \in [1..j -> MetricResource]
    /\ metrics = NoMetrics
    /\ console = <<>>
    /\ LoadIdle
    /\ ExecIdle

ComputeMetrics(computeReloadRatio) ==
    /\ metrics = NoMetrics
    /\ metrics' = computeMetrics(initialResources, reloadResources, computeReloadRatio)
    /\ console' = console \o InitialCacheWarning(initialResources, computeReloadRatio)
    /\ UNCHANGED <<initialResources, reloadResources, loadVars, execVars>>

NextMetrics == \E b \in BOOLEAN : ComputeMetrics(b)

SpecMetrics == InitMetrics /\ [][NextMetrics]_vars

(***************************************************************************)
(* Specification of the Page Load Recorder: one loadPageResources call,    *)
(* its response listener, the body reads and the scroll.                   *)
(***************************************************************************)
\* The options of the initial load (lines 170-174); the reload (lines 176-180)
\* differs in reload and cacheEnabled, which select page.reload over page.goto
\* and set the browser's cache policy, and takes the same steps.
LoadOptions ==
    {[reload |-> FALSE, cacheEnabled |-> FALSE, scrollToBottom |-> s] : s \in BOOLEAN}

InitRecorder ==
    /\ pc = "start"
    /\ options \in LoadOptions
    /\ sessionState = "none"
    /\ listenerState = "none"
    /\ cdpIntermediateStore = EmptyMap
    /\ cdpResponses = EmptyMap
    /\ cdpLog = <<>>
    /\ responses = <<>>
    /\ pageResources = <<>>
    /\ returned = NotReturned
    /\ totalHeight = 0
    /\ scrollHeight \in (IF options.scrollToBottom THEN PageHeights ELSE {0})
    /\ growths = 0
    /\ console = <<>>
    /\ MetricsIdle
    /\ ExecIdle

Lifecycle ==
    \/ CreateCDPSession
    \/ CreateCDPSessionThrows
    \/ RegisterListeners
    \/ NetworkEnableThrows
    \/ NavigationSettles
    \/ NavigationThrows
    \/ DetachAndMerge
    \/ DetachThrows

Scrolling ==
    \/ ScrollTick
    \/ PageGrows
    \/ EvaluateReturns
    \/ EvaluateThrows

PageEvents ==
    \/ \E response \in Responses : ResponseEvent(response)
    \/ \E i \in DOMAIN responses : BodyReadResolves(i)
    \/ \E i \in DOMAIN responses : BodyReadRejects(i)

CdpEvents ==
    \/ \E requestId \in RequestIds, url \in CdpUrls : ResponseReceived(requestId, url)
    \/ \E requestId \in RequestIds, n \in EncodedDataLengths : LoadingFinished(requestId, n)

NextRecorder == Lifecycle \/ Scrolling \/ PageEvents

SpecRecorder == InitRecorder /\ [][NextRecorder]_vars

(***************************************************************************)
(* Specification of the Transport-Session Correlator: a navigation in      *)
(* progress, with the resources recorded so far, receives the CDP events   *)
(* and ends with the merge.                                                *)
(***************************************************************************)
RecordedResponses ==
    {PageResponse(UrlA, 200, "GET"), PageResponse(UrlA, 304, "GET"),
     PageResponse(UrlB, 200, "GET")}

InitCorrelator ==
    /\ pc = "navigating"
    /\ options = [reload |-> FALSE, cacheEnabled |-> FALSE, scrollToBottom |-> FALSE]
    /\ sessionState = "attached"
    /\ listenerState = "on"
    /\ cdpIntermediateStore = EmptyMap
    /\ cdpResponses = EmptyMap
    /\ cdpLog = <<>>
    /\ \E n \in 0..MaxRecorded : \E rs \in [1..n -> RecordedResponses] :
          /\ responses = [i \in 1..n |-> [response |-> rs[i], state |-> "pushed"]]
          /\ pageResources = [i \in 1..n |-> ResourceBaseOf(rs[i])]
    /\ returned = NotReturned
    /\ totalHeight = 0
    /\ scrollHeight = 0
    /\ growths = 0
    /\ console = <<>>
    /\ MetricsIdle
    /\ ExecIdle

NextCorrelator ==
    \/ NavigationSettles
    \/ NavigationThrows
    \/ DetachAndMerge
    \/ DetachThrows
    \/ CdpEvents

SpecCorrelator == InitCorrelator /\ [][NextCorrelator]_vars

(***************************************************************************)
(* Specification of the scroll: a navigation with scrollToBottom about to  *)
(* settle, with the resources recorded so far; the page may grow while it  *)
(* is scrolled.  The interval timer of scrollToBottomOfPage keeps firing   *)
(* until it is cleared, hence the weak fairness of ScrollTick.             *)
(***************************************************************************)
InitScroll ==
    /\ pc = "navigating"
    /\ options = [reload |-> FALSE, cacheEnabled |-> FALSE, scrollToBottom |-> TRUE]
    /\ sessionState = "attached"
    /\ listenerState = "on"
    /\ cdpIntermediateStore = EmptyMap
    /\ cdpResponses = EmptyMap
    /\ cdpLog = <<>>
    /\ \E n \in 0..MaxRecorded : \E rs \in [1..n -> RecordedResponses] :
          /\ responses = [i \in 1..n |-> [response |-> rs[i], state |-> "pushed"]]
          /\ pageResources = [i \in 1..n |-> ResourceBaseOf(rs[i])]
    /\ returned = NotReturned
    /\ totalHeight = 0
    /\ scrollHeight \in PageHeights
    /\ growths = 0
    /\ console = <<>>
    /\ MetricsIdle
    /\ ExecIdle

NextScroll ==
    \/ NavigationSettles
    \/ NavigationThrows
    \/ Scrolling
    \/ DetachAndMerge
    \/ DetachThrows

SpecScroll == InitScroll /\ [][NextScroll]_vars /\ WF_vars(ScrollTick)

(***************************************************************************)
(* execute and measurePageImpactMetrics (lines 78-213): one async mapper   *)
(* per input under Promise.all.                                            *)
(***************************************************************************)
\* What one loadPageResources call of a pipeline returns.
PageLoadCold == <<[type |-> "image", transferSize |-> 100, fromCache |-> FALSE],
                  [type |-> "script", transferSize |-> 50, fromCache |-> FALSE]>>
PageLoadWarm == <<[type |-> "image", transferSize |-> 0, fromCache |-> TRUE],
                  [type |-> "script", transferSize |-> 50, fromCache |-> FALSE]>>
PageLoads == {<<>>, PageLoadCold, PageLoadWarm}

\* config.options.dataReloadRatio: absent, 0 or 0.5.
ConfigRatios == {Undefined, Divide(0, 1), Divide(1, 2)}

\* input.options: absent, or an object with its own dataReloadRatio.
NoOptions == [present |-> FALSE, dataReloadRatio |-> Undefined]
InputOptions == {NoOptions, [present |-> TRUE, dataReloadRatio |-> Divide(1, 4)]}

Inputs == {[url |-> PageUrl, options |-> o] : o \in InputOptions}

NoOutput == [url |-> <<>>, bytes |-> -1, resourcesBytes |-> EmptyObject, options |-> NoOptions]

\* Line 131.
ComputeReloadRatio(cfg) == ~Truthy(cfg.options.dataReloadRatio)

\* The object returned by the mapper (lines 109-122).
OutputOf(input, measured) ==
    [url |-> input.url,
     bytes |-> measured.pageWeight,
     resourcesBytes |-> measured.resourceTypeWeights,
     options |-> IF input.options.present \/ Truthy(measured.dataReloadRatio)
                 THEN [present |-> TRUE, dataReloadRatio |-> measured.dataReloadRatio]
                 ELSE NoOptions]

NewPipeline == [pc |-> "launching", initial |-> <<>>, metrics |-> NoMetrics,
                error |-> NoError, output |-> NoOutput]

\* The mapper of input i rejects; Promise.all rejects with the first rejection.
Reject(i, error) ==
    /\ pipeline' = [pipeline EXCEPT ![i].pc = "rejected", ![i].error = error]
    /\ execution' = IF execution.state = "pending"
                    THEN [state |-> "rejected", outputs |-> <<>>, error |-> error]
                    ELSE execution

\* The mapper of input i fulfils; Promise.all fulfils once every mapper has.
Fulfil(i, output) ==
    /\ pipeline' = [pipeline EXCEPT ![i].pc = "fulfilled", ![i].output = output]
    /\ execution' = IF /\ execution.state = "pending"
                       /\ \A j \in DOMAIN pipeline : j # i => pipeline[j].pc = "fulfilled"
                    THEN [state |-> "fulfilled",
                          outputs |-> [j \in DOMAIN pipeline |->
                                          IF j = i THEN output ELSE pipeline[j].output],
                          error |-> NoError]
                    ELSE execution

\* Line 149: puppeteer.launch() resolves; newPage and the page setup follow.
LaunchBrowser(i) ==
    /\ pipeline[i].pc = "launching"
    /\ pipeline' = [pipeline EXCEPT ![i].pc = "initialLoad"]
    /\ UNCHANGED <<config, inputs, execution, console, metricVars, loadVars>>

\* Line 149: puppeteer.launch() rejects; the outer catch wraps it.
LaunchThrows(i) ==
    /\ pipeline[i].pc = "launching"
    /\ Reject(i, MeasureError(LaunchError))
    /\ UNCHANGED <<config, inputs, console, metricVars, loadVars>>

\* Lines 170-174: the initial loadPageResources returns its list.
InitialLoadReturns(i, resources) ==
    /\ pipeline[i].pc = "initialLoad"
    /\ pipeline' = [pipeline EXCEPT ![i].pc = "reload", ![i].initial = resources]
    /\ UNCHANGED <<config, inputs, execution, console, metricVars, loadVars>>

\* Lines 176-202: the reload returns its list and computeMetrics runs; the
\* finally then awaits browser.close().
ReloadReturns(i, resources) ==
    /\ pipeline[i].pc = "reload"
    /\ pipeline' = [pipeline EXCEPT
          ![i].pc = "closing",
          ![i].metrics = computeMetrics(pipeline[i].initial, resources,
                                        ComputeReloadRatio(config))]
    /\ console' = console \o InitialCacheWarning(pipeline[i].initial,
                                                 ComputeReloadRatio(config))
    /\ UNCHANGED <<config, inputs, execution, metricVars, loadVars>>

\* Lines 170-180: a loadPageResources call throws; the finally awaits
\* browser.close().
LoadPageResourcesThrows(i) ==
    /\ pipeline[i].pc \in {"initialLoad", "reload"}
    /\ pipeline' = [pipeline EXCEPT
          ![i].pc = "closing",
          ![i].error = LoadError(TimeoutError)]
    /\ UNCHANGED <<config, inputs, execution, console, metricVars, loadVars>>

\* Lines 203-212 and 101-122: browser.close() resolves; the measurement
\* returns to the mapper, or its error goes through the outer catch.
BrowserCloses(i) ==
    /\ pipeline[i].pc = "closing"
    /\ IF pipeline[i].error # NoError
       THEN Reject(i, MeasureError(pipeline[i].error))
       ELSE Fulfil(i, OutputOf(inputs[i], pipeline[i].metrics))
    /\ UNCHANGED <<config, inputs, console, metricVars, loadVars>>

InitExec ==
    /\ config \in {[options |-> [dataReloadRatio |-> r]] : r \in ConfigRatios}
    /\ \E n \in 1..MaxInputs :
          /\ inputs \in [1..n -> Inputs]
          /\ pipeline = [i \in 1..n |-> NewPipeline]
    /\ execution = [state |-> "pending", outputs |-> <<>>, error |-> NoError]
    /\ console = <<>>
    /\ MetricsIdle
    /\ LoadIdle

NextExec ==
    \/ \E i \in DOMAIN pipeline : LaunchBrowser(i)
    \/ \E i \in DOMAIN pipeline : LaunchThrows(i)
    \/ \E i \in DOMAIN pipeline, resources \in PageLoads : InitialLoadReturns(i, resources)
    \/ \E i \in DOMAIN pipeline, resources \in PageLoads : ReloadReturns(i, resources)
    \/ \E i \in DOMAIN pipeline : LoadPageResourcesThrows(i)
    \/ \E i \in DOMAIN pipeline : BrowserCloses(i)

SpecExec == InitExec /\ [][NextExec]_vars

(***************************************************************************)
(* Properties of execute (SpecExec).                                       *)
(***************************************************************************)
AllSettled == \A i \in DOMAIN pipeline : pipeline[i].pc \in {"fulfilled", "rejected"}

\* C1: once every input of a batch has settled, each input whose measurement
\* succeeded has its output entry in what execute returned, also when the
\* measurement of another input of the batch failed.
C1_SuccessfulInputsProduceOutput ==
    (execution.state # "none" /\ AllSettled) =>
        \A i \in DOMAIN pipeline :
            pipeline[i].pc = "fulfilled" =>
                /\ execution.state = "fulfilled"
                /\ execution.outputs[i] = pipeline[i].output

\* C4: when config.options carries a numeric dataReloadRatio (0 included), no
\* measurement computes a ratio of its own and no output's options carry a
\* ratio other than the caller's.
C4_SuppliedRatioIsKept ==
    \A i \in DOMAIN pipeline :
        (config.options.dataReloadRatio # Undefined /\ pipeline[i].metrics # NoMetrics) =>
            /\ ~pipeline[i].metrics.computed
            /\ (pipeline[i].pc = "fulfilled" /\ pipeline[i].output.options.present) =>
                  pipeline[i].output.options.dataReloadRatio
                      \in {Undefined, config.options.dataReloadRatio}

\* How often a part occurs in a message, and whether the message ends with
\* the given parts.
Occurrences(message, part) == Cardinality({k \in DOMAIN message : message[k] = part})
EndsWith(message, parts) ==
    /\ Len(message) >= Len(parts)
    /\ SubSeq(message, Len(message) - Len(parts) + 1, Len(message)) = parts

\* The cause a failed navigation rejects with, as `${error}` renders it.
NavigationCause == <<"TimeoutError", "Navigation timeout of 30000 ms exceeded">>

\* "<ComponentName>: <stage-specific message>: <underlying cause>", with the
\* component prefix occurring once.
WrappedOnce(message, cause) ==
    /\ Len(message) = 2 + Len(cause)
    /\ message[1] = ComponentName
    /\ Occurrences(message, ComponentName) = 1
    /\ EndsWith(message, cause)

\* C13: a failure of the navigation inside loadPageResources reaches the
\* caller of execute, and the mapper of its input, as one error wrapped exactly
\* once: the component prefix, one stage message, then the underlying cause.
C13_LoadFailureWrappedOnce ==
    /\ \A i \in DOMAIN pipeline :
          (pipeline[i].pc = "rejected" /\ EndsWith(pipeline[i].error.message, NavigationCause))
              => WrappedOnce(pipeline[i].error.message, NavigationCause)
    /\ (execution.state = "rejected" /\ EndsWith(execution.error.message, NavigationCause))
          => WrappedOnce(execution.error.message, NavigationCause)

(***************************************************************************)
(* Properties of computeMetrics (SpecMetrics).                             *)
(***************************************************************************)
Computed == metrics # NoMetrics

\* C2: the returned pageWeight is the sum of the values of the returned
\* resourceTypeWeights and the sum of transferSize over the initial-load
\* resources, for every initial-load list and every reload list.
C2_PageWeightIsSumOfTypeWeights ==
    Computed =>
        /\ metrics.pageWeight = SumValues(metrics.resourceTypeWeights)
        /\ metrics.pageWeight = SumTransferSize(initialResources)

\* Three initial resources of two types, a type repeated with non-zero sizes.
C2_Witness ==
    /\ Computed
    /\ Len(initialResources) = 3
    /\ initialResources[1].type = initialResources[3].type
    /\ initialResources[1].type # initialResources[2].type
    /\ \A i \in 1..3 : initialResources[i].transferSize > 0
    /\ metrics.pageWeight = SumTransferSize(initialResources)

\* C3: when the ratio is computed and pageWeight is 0, dataReloadRatio is 1.0,
\* whatever the reload list.
C3_ZeroPageWeightGivesOne ==
    (Computed /\ metrics.computed /\ metrics.pageWeight = 0) =>
        IsOne(metrics.dataReloadRatio)

ReloadTransfersNothing ==
    \A i \in DOMAIN reloadResources :
        reloadResources[i].transferSize = 0 /\ ~reloadResources[i].fromCache

\* C6 as stated: computed with pageWeight > 0, every reload resource with
\* transferSize 0 and none flagged fromCache, dataReloadRatio is 1.0.
C6_NothingTransferredGivesOne ==
    (Computed /\ metrics.computed /\ metrics.pageWeight > 0 /\ ReloadTransfersNothing) =>
        IsOne(metrics.dataReloadRatio)

\* C6 as amended: computed with pageWeight > 0, every reload resource with
\* transferSize 0 and none flagged fromCache, dataReloadRatio is 0.
C6_NothingTransferredGivesZero ==
    (Computed /\ metrics.computed /\ metrics.pageWeight > 0 /\ ReloadTransfersNothing) =>
        IsZero(metrics.dataReloadRatio)

C6_Witness ==
    /\ Computed
    /\ metrics.computed
    /\ metrics.pageWeight > 0
    /\ Len(reloadResources) = 2
    /\ ReloadTransfersNothing
    /\ IsZero(metrics.dataReloadRatio)

\* The sum of transferSize over the resources of a list at the given indices.
RECURSIVE SizeOver(_, _)
SizeOver(resources, indices) ==
    IF indices = {} THEN 0
    ELSE LET i == CHOOSE k \in indices : TRUE
         IN resources[i].transferSize + SizeOver(resources, indices \ {i})

OfType(resources, type) == {i \in DOMAIN resources : resources[i].type = type}

\* C16: the returned resourceTypeWeights has exactly the types of the
\* initial-load list as keys, each with the sum of transferSize over the
\* initial-load resources of that type; the reload list contributes nothing.
C16_TypeWeightsAreInitialSumsByType ==
    Computed =>
        /\ DOMAIN metrics.resourceTypeWeights
              = {initialResources[i].type : i \in DOMAIN initialResources}
        /\ \A type \in DOMAIN metrics.resourceTypeWeights :
              metrics.resourceTypeWeights[type]
                  = SizeOver(initialResources, OfType(initialResources, type))

\* Initial image 100 and script 50 give {image: 100, script: 50} and pageWeight
\* 150, with a reload list that holds a type and sizes of its own.
C16_Witness ==
    /\ Computed
    /\ initialResources = <<[type |-> "image", transferSize |-> 100, fromCache |-> FALSE],
                            [type |-> "script", transferSize |-> 50, fromCache |-> FALSE]>>
    /\ Len(reloadResources) = 2
    /\ \A i \in 1..2 : reloadResources[i].type = "image" /\ reloadResources[i].transferSize = 50
    /\ metrics.resourceTypeWeights["image"] = 100
    /\ metrics.resourceTypeWeights["script"] = 50
    /\ metrics.pageWeight = 150

Flagged(resources) == {i \in DOMAIN resources : resources[i].fromCache}

\* The fraction x equals num / den (den # 0).
EqualsFraction(x, num, den) == x.kind = "finite" /\ x.num * den = num * x.den

\* C17: computed with pageWeight > 0, dataReloadRatio is
\* (pageWeight - assumedCacheWeight) / pageWeight, where assumedCacheWeight is
\* (pageWeight - the transferSize of all reload resources) + the transferSize
\* of the reload resources flagged fromCache.
C17_RatioFromAssumedCacheWeight ==
    (Computed /\ metrics.computed /\ metrics.pageWeight > 0) =>
        LET pageWeight == metrics.pageWeight
            assumedCacheWeight ==
                (pageWeight - SizeOver(reloadResources, DOMAIN reloadResources))
                + SizeOver(reloadResources, Flagged(reloadResources))
        IN EqualsFraction(metrics.dataReloadRatio, pageWeight - assumedCacheWeight,
                          pageWeight)

\* Initial image 100 and script 50, reload image 0 from cache and script 50:
\* assumedCacheWeight 100 and ratio 50/150.
C17_Witness ==
    /\ Computed
    /\ metrics.computed
    /\ initialResources = <<[type |-> "image", transferSize |-> 100, fromCache |-> FALSE],
                            [type |-> "script", transferSize |-> 50, fromCache |-> FALSE]>>
    /\ reloadResources = <<[type |-> "image", transferSize |-> 0, fromCache |-> TRUE],
                           [type |-> "script", transferSize |-> 50, fromCache |-> FALSE]>>
    /\ metrics.pageWeight = 150
    /\ EqualsFraction(metrics.dataReloadRatio, 50, 150)

\* The reload resources not flagged fromCache.
Unflagged(resources) == {i \in DOMAIN resources : ~resources[i].fromCache}

\* C19: computed with pageWeight > 0 (every transferSize being non-negative),
\* the ratio is the transferSize of the reload resources not flagged fromCache
\* over pageWeight, whatever else the initial-load list holds, and is never
\* negative.
C19_NumeratorIsUnflaggedReload ==
    (Computed /\ metrics.computed /\ metrics.pageWeight > 0) =>
        /\ EqualsFraction(metrics.dataReloadRatio,
                          SizeOver(reloadResources, Unflagged(reloadResources)),
                          metrics.pageWeight)
        /\ metrics.dataReloadRatio.num * metrics.dataReloadRatio.den >= 0

\* A reload heavier than the initial load, part of it flagged fromCache: the
\* numerator is the unflagged part alone.
C19_Witness ==
    /\ Computed
    /\ metrics.computed
    /\ metrics.pageWeight = 50
    /\ SizeOver(reloadResources, DOMAIN reloadResources) = 200
    /\ SizeOver(reloadResources, Flagged(reloadResources)) = 100
    /\ EqualsFraction(metrics.dataReloadRatio, 100, 50)

(***************************************************************************)
(* Properties of the correlator and the merge (SpecCorrelator).            *)
(***************************************************************************)
\* Event k of a log is a 'loading finished' with no 'response received' for
\* its requestId before it.
UnmatchedFinished(log, k) ==
    /\ log[k].name = "Network.loadingFinished"
    /\ ~\E j \in 1..(k - 1) :
          /\ log[j].name = "Network.responseReceived"
          /\ log[j].requestId = log[k].requestId

\* C7: a 'loading finished' event whose requestId had no 'response received'
\* before it in the navigation raises no error and leaves the finished map
\* unchanged.
C7_UnmatchedFinishedIsDropped ==
    [][(Len(cdpLog') = Len(cdpLog) + 1 /\ UnmatchedFinished(cdpLog', Len(cdpLog')))
          => (cdpResponses' = cdpResponses /\ pc' = pc /\ returned' = returned)]_vars

\* A navigation that returned its resources although an unmatched 'loading
\* finished' was delivered first and its requestId was reported afterwards.
C7_Witness ==
    /\ pc = "returned"
    /\ Len(returned.value) > 0
    /\ Len(cdpLog) >= 2
    /\ UnmatchedFinished(cdpLog, 1)
    /\ cdpLog[2].name = "Network.responseReceived"
    /\ cdpLog[2].requestId = cdpLog[1].requestId
    /\ cdpResponses = EmptyMap

\* Event k of a log is a 'loading finished' after a 'response received' of
\* the same requestId that named the url.
FinishedAfterReceived(log, k, url) ==
    /\ log[k].name = "Network.loadingFinished"
    /\ \E j \in 1..(k - 1) :
          /\ log[j].name = "Network.responseReceived"
          /\ log[j].requestId = log[k].requestId
          /\ log[j].url = url

\* Event k of a log is a 'loading finished' whose requestId was last reported,
\* before it, by a 'response received' that named the url.
FinishedFor(log, k, url) ==
    /\ log[k].name = "Network.loadingFinished"
    /\ \E j \in 1..(k - 1) :
          /\ log[j].name = "Network.responseReceived"
          /\ log[j].requestId = log[k].requestId
          /\ log[j].url = url
          /\ ~\E m \in (j + 1)..(k - 1) :
                /\ log[m].name = "Network.responseReceived"
                /\ log[m].requestId = log[k].requestId

Latest(indices) == CHOOSE k \in indices : \A m \in indices : m <= k

\* C14 as stated: each url key of the finished map has a requestId with a
\* 'response received' naming the url and a later 'loading finished', and its
\* value is the encodedDataLength of the most recent 'loading finished' that
\* follows a 'response received' of its requestId naming the url.
C14_FinishedValueIsLatestAfterReceived ==
    \A url \in DOMAIN cdpResponses :
        LET such == {k \in DOMAIN cdpLog : FinishedAfterReceived(cdpLog, k, url)}
        IN /\ such # {}
           /\ cdpResponses[url].encodedDataLength = cdpLog[Latest(such)].encodedDataLength

\* C14 as amended: each url key of the finished map has a requestId with a
\* 'response received' naming the url and a later 'loading finished', and its
\* value is the encodedDataLength of the most recent 'loading finished' whose
\* requestId was, when it arrived, last reported with that url.
C14_FinishedValueIsLatestForUrl ==
    \A url \in DOMAIN cdpResponses :
        LET such == {k \in DOMAIN cdpLog : FinishedFor(cdpLog, k, url)}
        IN /\ such # {}
           /\ \E k \in DOMAIN cdpLog : FinishedAfterReceived(cdpLog, k, url)
           /\ cdpResponses[url].encodedDataLength = cdpLog[Latest(such)].encodedDataLength

\* A url finished twice, by two requestIds and with different lengths: the
\* second length is the one stored.
C14_Witness ==
    /\ Len(cdpLog) = 4
    /\ \E url \in DOMAIN cdpResponses :
          /\ FinishedFor(cdpLog, 2, url)
          /\ FinishedFor(cdpLog, 4, url)
          /\ cdpLog[2].encodedDataLength # cdpLog[4].encodedDataLength
          /\ cdpResponses[url].encodedDataLength = cdpLog[4].encodedDataLength
          /\ cdpLog[1].requestId # cdpLog[3].requestId

\* The warn lines of the console about a url.
WarnedAbout(url) ==
    \E k \in DOMAIN console : console[k].level = "warn" /\ console[k].url = url

\* C10: the merge returns one Resource per recorded ResourceBase, in the same
\* order and with url, resourceSize, type, fromCache and fromServiceWorker
\* unchanged; transferSize is the finished map's value for the url when there
\* is one, and 0 with a warning when there is none.
C10_MergeKeepsEveryResource ==
    returned.kind = "resources" =>
        /\ Len(returned.value) = Len(pageResources)
        /\ \A i \in DOMAIN pageResources :
              LET base == pageResources[i]
                  resource == returned.value[i]
              IN /\ resource.url = base.url
                 /\ resource.resourceSize = base.resourceSize
                 /\ resource.type = base.type
                 /\ resource.fromCache = base.fromCache
                 /\ resource.fromServiceWorker = base.fromServiceWorker
                 /\ IF base.url \in DOMAIN cdpResponses
                    THEN /\ resource.transferSize = cdpResponses[base.url].encodedDataLength
                         /\ ~WarnedAbout(base.url)
                    ELSE /\ resource.transferSize = 0
                         /\ WarnedAbout(base.url)

\* Two resources of different urls, the first without a finished entry, the
\* second with a non-zero one.
C10_Witness ==
    /\ returned.kind = "resources"
    /\ Len(returned.value) = 2
    /\ returned.value[1].url # returned.value[2].url
    /\ returned.value[1].url \notin DOMAIN cdpResponses
    /\ returned.value[2].url \in DOMAIN cdpResponses
    /\ returned.value[2].transferSize > 0

\* The records of a list that carry the url.
WithUrl(resources, url) == {i \in DOMAIN resources : resources[i].url = url}

\* C20: the records of the returned list that share a url all carry the same
\* transferSize; when a 'loading finished' was resolved for the url it is the
\* encodedDataLength of the last one, so the records of the url weigh that
\* value once per record.
C20_SameUrlSameTransferSize ==
    returned.kind = "resources" =>
        \A i \in DOMAIN returned.value :
            LET url == returned.value[i].url
                resolved == {k \in DOMAIN cdpLog : FinishedFor(cdpLog, k, url)}
                sharing == WithUrl(returned.value, url)
            IN /\ \A j \in sharing :
                     returned.value[j].transferSize = returned.value[i].transferSize
               /\ resolved # {} =>
                     /\ returned.value[i].transferSize
                           = cdpLog[Latest(resolved)].encodedDataLength
                     /\ SizeOver(returned.value, sharing)
                           = Cardinality(sharing) * cdpLog[Latest(resolved)].encodedDataLength

\* Two recorded responses of one url, one of them from cache, whose requests
\* finished with 0 and then 50 bytes: both records carry 50.
C20_Witness ==
    /\ returned.kind = "resources"
    /\ Len(returned.value) = 2
    /\ returned.value[1].url = returned.value[2].url
    /\ returned.value[1].fromCache # returned.value[2].fromCache
    /\ Len(cdpLog) = 4
    /\ cdpLog[1].requestId # cdpLog[3].requestId
    /\ FinishedFor(cdpLog, 2, returned.value[1].url)
    /\ FinishedFor(cdpLog, 4, returned.value[1].url)
    /\ cdpLog[2].encodedDataLength = 0
    /\ cdpLog[4].encodedDataLength = 50
    /\ returned.value[1].transferSize = 50
    /\ returned.value[2].transferSize = 50

(***************************************************************************)
(* Properties of the response listener and the lifecycle (SpecRecorder).   *)
(***************************************************************************)
HasNonNetworkScheme(url) ==
    /\ Len(url) >= 2
    /\ url[1] \in {"blob", "data", "intent", "file", "filesystem", "chrome-extension"}
    /\ url[2] = ":"

\* C8: no resource recorded or returned by loadPageResources has a url that
\* starts with a non-network scheme, whatever the status of its response.
C8_NoNonNetworkResource ==
    /\ \A i \in DOMAIN pageResources : ~HasNonNetworkScheme(pageResources[i].url)
    /\ returned.kind = "resources" =>
          \A i \in DOMAIN returned.value : ~HasNonNetworkScheme(returned.value[i].url)

\* A returned list with a resource in it, after a data: response of a status
\* other than 200 was delivered and skipped.
C8_Witness ==
    /\ returned.kind = "resources"
    /\ Len(returned.value) = 1
    /\ \E i \in DOMAIN responses :
          /\ responses[i].response.url = UrlData
          /\ responses[i].response.status = 304
          /\ responses[i].state = "skipped"

\* The invocations of responseHandler in a given state.
InState(state) == {i \in DOMAIN responses : responses[i].state = state}

\* C11: when the body read of one response fails, that response gets no
\* resource and nothing else changes: the navigation stays where it is, nothing
\* is returned or thrown, the resources recorded so far stay, the listener
\* stays registered and every other invocation goes on unaffected; the
\* recorded resources are at all times those of the responses whose read
\* succeeded, in the order the reads resolved.
C11_BodyReadFailureSkipsOneResource ==
    /\ [](Len(pageResources) = Cardinality(InState("pushed")))
    /\ [][\A i \in DOMAIN responses :
            (responses[i].state = "reading" /\ responses'[i].state = "failed") =>
                /\ pc' = pc
                /\ returned' = returned
                /\ pageResources' = pageResources
                /\ listenerState' = listenerState
                /\ sessionState' = sessionState
                /\ \A j \in DOMAIN responses : j # i => responses'[j] = responses[j]]_vars

\* A navigation that returned the resource of its second response after the
\* body read of its first had failed and been logged.
C11_Witness ==
    /\ returned.kind = "resources"
    /\ Len(responses) = 2
    /\ responses[1].state = "failed"
    /\ responses[2].state = "pushed"
    /\ Len(returned.value) = 1
    /\ returned.value[1].url = responses[2].response.url
    /\ responses[1].response.url # responses[2].response.url
    /\ \E k \in DOMAIN console :
          console[k].level = "error" /\ console[k].url = responses[1].response.url

\* A response of status 204 or 304 to a request whose method is not OPTIONS.
CarriesNoBody(response) ==
    response.status \in {204, 304} /\ response.method # "OPTIONS"

\* C12: a response with status 204 or 304 whose request method is not OPTIONS
\* is skipped by the response handler: its body is never read and no resource
\* is recorded or returned for it.
C12_BodylessResponseIsSkipped ==
    \A i \in DOMAIN responses :
        CarriesNoBody(responses[i].response) => responses[i].state = "skipped"

\* C15: once loadPageResources has returned its list, every response that was
\* delivered to the registered listener, passed the filters and had its body
\* read has a record of its own in that list, whenever the read resolved.
C15_EveryReadResponseIsReturned ==
    returned.kind = "resources" =>
        \A url \in Urls :
            Cardinality({i \in InState("pushed") : responses[i].response.url = url})
                <= Cardinality(WithUrl(returned.value, url))

(***************************************************************************)
(* Properties of the scroll (SpecScroll).                                  *)
(***************************************************************************)
\* C18: every tick scrolls the fixed step and ends the scroll exactly when the
\* distance scrolled has reached the height the page has at that tick, so a
\* scroll still running has not reached the height; the listener is not
\* removed and the merge does not run before the scroll has ended; and a
\* scroll over a page that stops growing ends.
C18_ScrollEndsAtLiveHeight ==
    /\ [][(pc = "scrolling" /\ totalHeight' # totalHeight) =>
            /\ totalHeight' = totalHeight + 100
            /\ scrollHeight' = scrollHeight
            /\ (pc' = "scrolled") <=> (totalHeight' >= scrollHeight)
            /\ pc' \in {"scrolled", "scrolling"}]_vars
    /\ []((pc = "scrolling" /\ totalHeight > 0) => totalHeight < scrollHeight)
    /\ []((options.scrollToBottom /\ (listenerState = "off" \/ returned.kind = "resources"))
             => (totalHeight > 0 /\ totalHeight >= scrollHeight))
    /\ ((pc = "scrolling") ~> (pc # "scrolling"))

\* A page that grew under the scroll: the scroll went on past the height it
\* started with, ended exactly at the grown height, and the list was returned
\* after it.
C18_Witness ==
    /\ returned.kind = "resources"
    /\ options.scrollToBottom
    /\ growths = 1
    /\ totalHeight = scrollHeight
    /\ totalHeight - 100 >= scrollHeight - GrowthStep
    /\ listenerState = "off"

\* C9: an invocation that created the CDP session and registered the response
\* listener ends, by returning or by throwing, with the session detached and
\* the listener removed.
C9_CleanupOnEveryExit ==
    (pc \in {"returned", "thrown"} /\ sessionState # "none" /\ listenerState # "none") =>
        (sessionState = "detached" /\ listenerState = "off")

====
